---- MODULE Spec2Model ----
(***************************************************************************)
(* GPU telemetry acquisition of system-info-exporter (src/metrics.rs):     *)
(* presence check, tool locator, timed executor (timeout wrapper and       *)
(* direct polling), output parser, staleness cache and the snapshot        *)
(* assembler, driven by concurrent scrape requests (src/api/handlers.rs),  *)
(* and the parser, the used-device count and the exposition formatter     *)
(* applied on their own. Times are in milliseconds.                        *)
(***************************************************************************)
EXTENDS Integers, Sequences, FiniteSets, TLC

\* ------------------------------------------------------------------ bounds
NumReqs == 2           \* request slots served concurrently by the runtime
MaxCycles == 3         \* scrape requests issued in one behaviour
MaxIdle == 1           \* idle periods between requests in one behaviour
MaxToolDelayPolls == 0 \* a tool that exits, or a try_wait that fails, does so within this many poll intervals
MaxLines == 1          \* lines in one tool output drawn freely; the two-device outputs come on top
MaxParseLines == 3         \* lines of a device output given to parse_nvidia_smi_output alone
MaxVaried == 2             \* fields of a line that differ from the well-formed line
MaxAppLines == 3           \* lines of an active-workload output given to get_gpu_used_count alone
MaxDevices == 2            \* devices of a list given to a function alone
MaxCalls == 2              \* calls of one function on the same input

\* ------------------------------------------------------ program constants
NVIDIA_SMI_TIMEOUT_SECS == 5
GPU_CACHE_MAX_AGE_SECS == 300
POLL_INTERVAL_MS == 100
TIMEOUT_EXIT_CODE == 124
MIN_FIELDS == 10

Reqs == 1..NumReqs

\* NVIDIA_SMI_PATHS, in priority order (a path is the sequence of its
\* separators and components)
NVIDIA_SMI_PATHS ==
  << << "/", "usr", "/", "bin", "/", "nvidia-smi" >>,
     << "/", "usr", "/", "local", "/", "bin", "/", "nvidia-smi" >>,
     << "/", "host", "/", "usr", "/", "bin", "/", "nvidia-smi" >> >>
NoPath == << >>

\* nvidia_smi.starts_with("/host/")
IsHostMounted(p) == Len(p) >= 3 /\ SubSeq(p, 1, 3) = << "/", "host", "/" >>

\* ------------------------------------------------------------------ text
\* A string is the sequence of its characters; a line of tool output is the
\* sequence of its comma-separated fields (line.split(',')), and an output is
\* the sequence of its lines (output.lines()).
Str(a, b) == << a, b >>

\* str::trim
RECURSIVE TrimStart(_)
TrimStart(s) ==
  IF s = << >> THEN << >>
  ELSE IF Head(s) = " " THEN TrimStart(Tail(s)) ELSE s

RECURSIVE TrimEnd(_)
TrimEnd(s) ==
  IF s = << >> THEN << >>
  ELSE IF s[Len(s)] = " " THEN TrimEnd(SubSeq(s, 1, Len(s) - 1)) ELSE s

Trim(s) == TrimEnd(TrimStart(s))

StartsWith(s, pat) == Len(s) >= Len(pat) /\ SubSeq(s, 1, Len(pat)) = pat

\* str::replace: every non-overlapping match, left to right
RECURSIVE Replace(_, _, _)
Replace(s, pat, to) ==
  IF s = << >> THEN << >>
  ELSE IF StartsWith(s, pat)
       THEN to \o Replace(SubSeq(s, Len(pat) + 1, Len(s)), pat, to)
       ELSE << Head(s) >> \o Replace(Tail(s), pat, to)

\* str::contains
Contains(s, pat) ==
  \E i \in 1..(Len(s) - Len(pat) + 1) : SubSeq(s, i, i + Len(pat) - 1) = pat

\* the text of a line: its fields joined by commas
RECURSIVE LineText(_)
LineText(fields) ==
  IF fields = << >> THEN << >>
  ELSE IF Len(fields) = 1 THEN fields[1]
  ELSE fields[1] \o << "," >> \o LineText(Tail(fields))

Digit ==
  [c \in {"0", "1", "2", "3", "4", "5", "6", "7", "8", "9"} |->
     CASE c = "0" -> 0 [] c = "1" -> 1 [] c = "2" -> 2 [] c = "3" -> 3 [] c = "4" -> 4
       [] c = "5" -> 5 [] c = "6" -> 6 [] c = "7" -> 7 [] c = "8" -> 8 [] c = "9" -> 9]

IsDigits(s) == s # << >> /\ \A i \in DOMAIN s : s[i] \in DOMAIN Digit

RECURSIVE DecVal(_)
DecVal(s) == IF s = << >> THEN 0 ELSE 10 * DecVal(SubSeq(s, 1, Len(s) - 1)) + Digit[s[Len(s)]]

\* s.parse::<u32>() and s.parse::<u64>(): an optional "+", then digits.
\* [ok, val]; the inputs of this model are far below the types' maxima.
ParseUnsigned(s) ==
  LET d == IF s # << >> /\ Head(s) = "+" THEN Tail(s) ELSE s IN
    IF IsDigits(d) THEN [ok |-> TRUE, val |-> DecVal(d)] ELSE [ok |-> FALSE, val |-> 0]

\* s.parse::<f64>().map(|v| v as u32): an optional sign, digits with at most
\* one ".", at least one digit (exponents, "inf" and "nan" are not among the
\* inputs of this model); `as u32` truncates and turns a negative value to 0.
ParseFloatAsU32(s) ==
  LET neg == s # << >> /\ Head(s) = "-"
      d   == IF s # << >> /\ Head(s) \in {"+", "-"} THEN Tail(s) ELSE s
      dot == {i \in DOMAIN d : d[i] = "."}
      ip  == IF dot = {} THEN d ELSE SubSeq(d, 1, (CHOOSE i \in dot : TRUE) - 1)
      fp  == IF dot = {} THEN << >> ELSE SubSeq(d, (CHOOSE i \in dot : TRUE) + 1, Len(d))
      ok  == /\ Cardinality(dot) <= 1
             /\ ip \o fp # << >>
             /\ \A i \in DOMAIN (ip \o fp) : (ip \o fp)[i] \in DOMAIN Digit
  IN IF ok THEN [ok |-> TRUE, val |-> IF neg THEN 0 ELSE DecVal(ip)]
     ELSE [ok |-> FALSE, val |-> 0]

\* .unwrap_or(0)
UnwrapOr0(r) == IF r.ok THEN r.val ELSE 0

NA == << "N", "/", "A" >>
Bracket == << "[" >>

\* parse_mib_value: s.trim().replace(" MiB", "").replace(" MB", "").parse::<u64>().unwrap_or(0)
parse_mib_value(s) ==
  UnwrapOr0(ParseUnsigned(Replace(Replace(Trim(s), << " ", "M", "i", "B" >>, << >>),
                                  << " ", "M", "B" >>, << >>)))

\* parse_percent_value
parse_percent_value(s) ==
  LET t == Replace(Replace(Trim(s), << " ", "%" >>, << >>), << "%" >>, << >>) IN
    IF Contains(t, NA) \/ Contains(t, Bracket) THEN 0 ELSE UnwrapOr0(ParseUnsigned(t))

\* parse_int_value
parse_int_value(s) ==
  LET t == Trim(s) IN
    IF Contains(t, NA) \/ Contains(t, Bracket) THEN 0 ELSE UnwrapOr0(ParseUnsigned(t))

\* parse_watts_value
parse_watts_value(s) ==
  LET t == Replace(Trim(s), << " ", "W" >>, << >>) IN
    IF Contains(t, NA) \/ Contains(t, Bracket) THEN 0 ELSE UnwrapOr0(ParseFloatAsU32(t))

\* ---------------------------------------------------------------- values
\* The device query's lines in the request model: a line with MIN_FIELDS
\* fields, a line with fewer fields, and a blank line.
GpuNames == {Str("T", "4"), Str("A", "1")}
GpuUuids == {Str("G", "1"), Str("G", "2")}
RecLine(index, name, uuid) ==
  << index, name, uuid, Str("1", "6"), << "4" >>, Str("1", "2"),
     << "5" >>, Str("4", "0"), Str("7", "0"), Str("9", "0") >>
RecLines == {RecLine(<< "0" >>, Str("T", "4"), Str("G", "1"))}
ShortLine == SubSeq(RecLine(<< "0" >>, Str("T", "4"), Str("G", "1")), 1, MIN_FIELDS - 1)
BlankLine == << << >> >>
GpuLines == RecLines \cup {ShortLine, BlankLine}

\* One line of the active-workload query's output: a uuid or a blank line.
AppLines == {<< u >> : u \in GpuUuids \cup {Str("G", "9")}} \cup {BlankLine}

SeqsUpTo(S, n) == UNION {[1..k -> S] : k \in 0..n}

\* Outputs for two devices: of one type, and of two types
TwoDeviceOutputs ==
  {<< RecLine(<< "0" >>, Str("T", "4"), Str("G", "1")), RecLine(<< "1" >>, n, Str("G", "2")) >> :
     n \in GpuNames}
TwoAppsOutput == << << Str("G", "1") >>, << Str("G", "2") >> >>

GpuOutputs == SeqsUpTo(GpuLines, MaxLines) \cup TwoDeviceOutputs
AppOutputs == SeqsUpTo(AppLines, MaxLines) \cup {TwoAppsOutput}

\* A variant of GpuInfo whose power limit falls back to the power draw.
GpuInfoLimitFromDraw(fields) ==
  [index               |-> UnwrapOr0(ParseUnsigned(fields[1])),
   name                |-> fields[2],
   uuid                |-> fields[3],
   memory_total_mb     |-> parse_mib_value(fields[4]),
   memory_used_mb      |-> parse_mib_value(fields[5]),
   memory_free_mb      |-> parse_mib_value(fields[6]),
   utilization_percent |-> parse_percent_value(fields[7]),
   temperature_celsius |-> parse_int_value(fields[8]),
   power_draw_watts    |-> parse_watts_value(fields[9]),
   power_limit_watts   |-> IF parse_watts_value(fields[10]) = 0
                           THEN parse_watts_value(fields[9])
                           ELSE parse_watts_value(fields[10])]

\* GpuInfo, built from the trimmed fields of one line
GpuInfo(fields) ==
  [index               |-> UnwrapOr0(ParseUnsigned(fields[1])),
   name                |-> fields[2],
   uuid                |-> fields[3],
   memory_total_mb     |-> parse_mib_value(fields[4]),
   memory_used_mb      |-> parse_mib_value(fields[5]),
   memory_free_mb      |-> parse_mib_value(fields[6]),
   utilization_percent |-> parse_percent_value(fields[7]),
   temperature_celsius |-> parse_int_value(fields[8]),
   power_draw_watts    |-> parse_watts_value(fields[9]),
   power_limit_watts   |-> parse_watts_value(fields[10])]

\* Option<String>: None, or Some(lines)
None == [some |-> FALSE, lines |-> << >>]
Some(lines) == [some |-> TRUE, lines |-> lines]

EmptyCounts == [n \in {} |-> 0]

\* (Vec::new(), HashMap::new(), 0)
EmptySnapshot == [devices |-> << >>, type_counts |-> EmptyCounts, used_count |-> 0]

\* ------------------------------------------------------- pure functions
\* let fields: Vec<&str> = line.split(',').map(|s| s.trim()).collect();
SplitFields(line) == [i \in DOMAIN line |-> Trim(line[i])]

\* A variant of SelectRecs that stops at a line with too few fields.
RECURSIVE SelectRecsUntilShort(_)
SelectRecsUntilShort(lines) ==
  IF lines = << >> THEN << >>
  ELSE IF Trim(LineText(Head(lines))) = << >> THEN SelectRecsUntilShort(Tail(lines))
  ELSE IF Len(SplitFields(Head(lines))) < MIN_FIELDS THEN << >>
  ELSE << GpuInfo(SplitFields(Head(lines))) >> \o SelectRecsUntilShort(Tail(lines))

\* parse_nvidia_smi_output: the loop over output.lines()
RECURSIVE SelectRecs(_)
SelectRecs(lines) ==
  IF lines = << >> THEN << >>
  ELSE IF Trim(LineText(Head(lines))) = << >> THEN SelectRecs(Tail(lines))      \* line.is_empty(): continue
  ELSE IF Len(SplitFields(Head(lines))) < MIN_FIELDS THEN SelectRecs(Tail(lines)) \* fields.len() < 10: continue
  ELSE << GpuInfo(SplitFields(Head(lines))) >> \o SelectRecs(Tail(lines))

parse_nvidia_smi_output(output) == SelectRecs(output)

\* parse_nvidia_smi_output on each output of the request model
RECURSIVE ParsedTable(_)
ParsedTable(S) ==
  IF S = {} THEN << >>
  ELSE LET o == CHOOSE o \in S : TRUE IN
         (o :> parse_nvidia_smi_output(o)) @@ ParsedTable(S \ {o})

ParsedOutputs == ParsedTable(GpuOutputs)

\* Inputs of parse_nvidia_smi_output on its own. Outputs of up to
\* MaxParseLines lines: two well-formed lines, one of them padded and with an
\* eleventh field, a line with too few fields, an empty line and a line of
\* blanks.
PaddedLine ==
  << << " ", "1" >>, Str("A", "1"), << "G", "2", " " >>, Str("3", "2"), << "8" >>, Str("2", "4"),
     << "9" >>, Str("5", "0"), Str("6", "0"), Str("8", "0"), << "x" >> >>
ParseLines ==
  {RecLine(<< "0" >>, Str("T", "4"), Str("G", "1")), PaddedLine, ShortLine, BlankLine,
   << << " ", " " >> >>}
ParseOutputs == SeqsUpTo(ParseLines, MaxParseLines)

\* What the tool can print in a numeric field
FieldTexts ==
  {<< "7" >>, << "N", "/", "A" >>, << "[", "N", "/", "A", "]" >>, << "a", "b" >>, << >>,
   << "-", "1" >>, << "4", "5", " ", "%" >>, << "4", "5", "%" >>,
   << "1", "6", " ", "M", "i", "B" >>, << "1", "6", " ", "M", "B" >>,
   << "1", "5", ".", "7", "5", " ", "W" >>, << "1", "5", ".", "7", "5" >>,
   << "[", "7", "]" >>}

\* the fields of GpuInfo that are numbers, by the position of their text
NumericFields == {1} \cup 4..MIN_FIELDS
BaseLine == RecLine(<< "0" >>, Str("T", "4"), Str("G", "1"))

\* Single lines that differ from BaseLine in up to MaxVaried numeric fields
VariedLines ==
  {[i \in DOMAIN BaseLine |-> IF i \in DOMAIN ch THEN ch[i] ELSE BaseLine[i]] :
     ch \in UNION {[K -> FieldTexts] : K \in {K \in SUBSET NumericFields : Cardinality(K) <= MaxVaried}}}

ParseCalls ==
  {[fn |-> "parse_nvidia_smi_output", args |-> [output |-> o], outs |-> << >>] :
     o \in ParseOutputs \cup {<< l >> : l \in VariedLines}}

\* A variant of CountTypes that counts each name once.
CountTypesDistinct(devs) == [n \in {devs[i].name : i \in DOMAIN devs} |-> 1]

\* for gpu in &gpu_devices { *gpu_type_counts.entry(name).or_insert(0) += 1 }
CountTypes(devs) ==
  [n \in {devs[i].name : i \in DOMAIN devs} |->
     Cardinality({i \in DOMAIN devs : devs[i].name = n})]

\* used_uuids: the trimmed non-empty lines, as a set
UsedUuids(lines) ==
  {Trim(LineText(lines[i])) : i \in DOMAIN lines} \ {<< >>}

\* Inputs of get_gpu_used_count on its own: device lists of up to MaxDevices
\* devices (two of them may carry the same uuid), and outputs of up to
\* MaxAppLines lines: an id of a device, with and without padding, an id of
\* no device, an empty line and a line of blanks.
CallDevices ==
  {GpuInfo(RecLine(<< "0" >>, Str("T", "4"), Str("G", "1"))),
   GpuInfo(RecLine(<< "1" >>, Str("T", "4"), Str("G", "2"))),
   GpuInfo(RecLine(<< "2" >>, Str("A", "1"), Str("G", "1")))}
CallDeviceLists == SeqsUpTo(CallDevices, MaxDevices)
CallAppLines ==
  {<< Str("G", "1") >>, << << " ", "G", "1", " " >> >>, << Str("G", "2") >>,
   << Str("G", "9") >>, BlankLine, << << " ", " " >> >>}
CallAppOutputs == SeqsUpTo(CallAppLines, MaxAppLines)
\* used_uuids of each output of the request model and of the calls of
\* get_gpu_used_count on its own
UsedUuidsTable(S) == [o \in S |-> UsedUuids(o)] @@ << >>

UsedUuidsOf == UsedUuidsTable(AppOutputs \cup CallAppOutputs)

\* A variant of CountDevicesIn that counts the ids in use that belong to a
\* device.
CountUuidsIn(devs, used) == Cardinality({u \in used : \E i \in DOMAIN devs : devs[i].uuid = u})

\* gpu_devices.iter().filter(|gpu| used_uuids.contains(&gpu.uuid)).count()
CountDevicesIn(devs, used) == Cardinality({i \in DOMAIN devs : devs[i].uuid \in used})

\* Some(output) => count
CountUsed(devs, result) ==
  IF result.some THEN CountDevicesIn(devs, UsedUuidsOf[result.lines]) ELSE 0

UsedCountCalls ==
  {[fn |-> "get_gpu_used_count", args |-> [gpu_devices |-> d, output |-> o], outs |-> << >>] :
     d \in CallDeviceLists, o \in {Some(l) : l \in CallAppOutputs} \cup {None}}

\* What NodeMetrics::collect reads from the system besides the GPUs: the
\* label strings and the host's numbers (an f32 as its number of hundredths).
SysInfo(node, os_name, cpu_model) ==
  [hostname |-> Str("h", "1"), node |-> node, os_name |-> os_name,
   os_version |-> Str("2", "2"), kernel_version |-> Str("5", "4"),
   uptime_secs |-> 9, cpu_cores |-> 2, cpu_threads |-> 4, cpu_model |-> cpu_model,
   cpu_usage_percent |-> 5025, cpu_used_cores |-> 201,
   memory_total_bytes |-> 8, memory_used_bytes |-> 3, memory_available_bytes |-> 5,
   memory_usage_percent |-> 3750]

\* NODE_NAME, NAME= of os-release and the CPU brand are free text
NodeNames == {Str("n", "1"), << "n", "\"", "1" >>}
OsNames == {Str("o", "s"), << "o", "\\", "s" >>}
CpuModels == {Str("c", "1"), << "c", "\"", "\n" >>}
SysInfos == {SysInfo(n, o, c) : n \in NodeNames, o \in OsNames, c \in CpuModels}

\* The NodeMetrics value collect() builds from the system's numbers and what
\* collect_gpu_info returned.
NodeMetrics(sys, snap) ==
  [hostname |-> sys.hostname, node |-> sys.node, os_name |-> sys.os_name,
   os_version |-> sys.os_version, kernel_version |-> sys.kernel_version,
   uptime_secs |-> sys.uptime_secs, cpu_cores |-> sys.cpu_cores,
   cpu_threads |-> sys.cpu_threads, cpu_model |-> sys.cpu_model,
   cpu_usage_percent |-> sys.cpu_usage_percent, cpu_used_cores |-> sys.cpu_used_cores,
   memory_total_bytes |-> sys.memory_total_bytes,
   memory_used_bytes |-> sys.memory_used_bytes,
   memory_available_bytes |-> sys.memory_available_bytes,
   memory_usage_percent |-> sys.memory_usage_percent,
   gpu_count |-> Len(snap.devices),
   gpu_used_count |-> snap.used_count,
   gpu_devices |-> snap.devices,
   gpu_type_counts |-> snap.type_counts]

\* ------------------------------------------------------------ exposition
\* fn escape_label_value(s: &str) -> String
escape_label_value(s) ==
  Replace(Replace(Replace(s, << "\\" >>, << "\\", "\\" >>),
                  << "\"" >>, << "\\", "\"" >>),
          << "\n" >>, << "\\", "n" >>)

\* {} of an unsigned integer
DigitChars == << "0", "1", "2", "3", "4", "5", "6", "7", "8", "9" >>
RECURSIVE Dec(_)
Dec(n) == IF n < 10 THEN << DigitChars[n + 1] >> ELSE Dec(n \div 10) \o << DigitChars[(n % 10) + 1] >>

\* {:.2} of an f32; the model holds an f32 as its number of hundredths
Fixed2(v) == Dec(v \div 100) \o << ".", DigitChars[((v % 100) \div 10) + 1], DigitChars[(v % 10) + 1] >>

\* MetricsEnabled: one flag per metric family
FlagNames ==
  {"node_info", "node_uptime", "cpu_cores", "cpu_threads", "cpu_usage", "cpu_used_cores",
   "memory_total", "memory_used", "memory_available", "memory_usage",
   "gpu_count", "gpu_used_count", "gpu_type_count",
   "gpu_memory_total", "gpu_memory_used", "gpu_memory_free", "gpu_utilization",
   "gpu_temperature", "gpu_power_draw", "gpu_power_limit"}

\* The lines of the output: "# HELP <family> ...", "# TYPE <family> <type>",
\* and "<family>{<name>="<value>",...} <value>", with each label value as the
\* text written between the quotes.
Help(family) == [kind |-> "HELP", family |-> family, type |-> "", labels |-> << >>, value |-> << >>]
Type(family, type) == [kind |-> "TYPE", family |-> family, type |-> type, labels |-> << >>, value |-> << >>]
Sample(family, labels, value) ==
  [kind |-> "sample", family |-> family, type |-> "", labels |-> labels, value |-> value]
Label(name, value) == [name |-> name, value |-> value]

\* A variant of Family that writes the HELP and TYPE lines of a disabled family.
FamilyAlwaysDescribed(on, family, type, samples) ==
  << Help(family), Type(family, type) >> \o (IF on THEN samples ELSE << >>)

\* if enabled.<flag> { push HELP; push TYPE; push the sample lines }
Family(on, family, type, samples) ==
  IF on THEN << Help(family), Type(family, type) >> \o samples ELSE << >>

\* a family of one sample labelled with the node
NodeFamily(m, on, family, type, value) ==
  Family(on, family, type, << Sample(family, << Label("node", m.node) >>, value) >>)

\* the four labels of a per-device sample
DeviceLabels(m, g) ==
  << Label("node", m.node), Label("gpu_index", Dec(g.index)),
     Label("gpu_name", escape_label_value(g.name)), Label("gpu_uuid", g.uuid) >>

\* a family with one sample per device: for gpu in &self.gpu_devices
\* (values[i] is the value written for device i)
DeviceFamily(m, on, family, values) ==
  Family(on, family, "gauge",
         [i \in DOMAIN m.gpu_devices |->
            Sample(family, DeviceLabels(m, m.gpu_devices[i]), values[i])])

\* the value written for each device
TotalBytes(m) == [i \in DOMAIN m.gpu_devices |-> Dec(m.gpu_devices[i].memory_total_mb * 1024 * 1024)]
UsedBytes(m) == [i \in DOMAIN m.gpu_devices |-> Dec(m.gpu_devices[i].memory_used_mb * 1024 * 1024)]
FreeBytes(m) == [i \in DOMAIN m.gpu_devices |-> Dec(m.gpu_devices[i].memory_free_mb * 1024 * 1024)]
Utilization(m) == [i \in DOMAIN m.gpu_devices |-> Dec(m.gpu_devices[i].utilization_percent)]
Temperature(m) == [i \in DOMAIN m.gpu_devices |-> Dec(m.gpu_devices[i].temperature_celsius)]
PowerDraw(m) == [i \in DOMAIN m.gpu_devices |-> Dec(m.gpu_devices[i].power_draw_watts)]
PowerLimit(m) == [i \in DOMAIN m.gpu_devices |-> Dec(m.gpu_devices[i].power_limit_watts)]

\* NodeMetrics::to_prometheus(&self, enabled). order is the order in which
\* this instance of self.gpu_type_counts yields its entries: a HashMap
\* iterates in an order of its own, the same each time while it is not
\* modified.
to_prometheus(m, order, enabled) ==
  Family(enabled.node_info, "hw_node_info", "gauge",
         << Sample("hw_node_info",
                   << Label("node", m.node), Label("os", m.os_name),
                      Label("os_version", m.os_version), Label("kernel", m.kernel_version),
                      Label("cpu_model", escape_label_value(m.cpu_model)) >>,
                   << "1" >>) >>)
  \o NodeFamily(m, enabled.node_uptime, "hw_node_uptime_seconds", "counter", Dec(m.uptime_secs))
  \o NodeFamily(m, enabled.cpu_cores, "hw_cpu_cores", "gauge", Dec(m.cpu_cores))
  \o NodeFamily(m, enabled.cpu_threads, "hw_cpu_threads", "gauge", Dec(m.cpu_threads))
  \o NodeFamily(m, enabled.cpu_usage, "hw_cpu_usage_percent", "gauge", Fixed2(m.cpu_usage_percent))
  \o NodeFamily(m, enabled.cpu_used_cores, "hw_cpu_used_cores", "gauge", Fixed2(m.cpu_used_cores))
  \o NodeFamily(m, enabled.memory_total, "hw_memory_total_bytes", "gauge", Dec(m.memory_total_bytes))
  \o NodeFamily(m, enabled.memory_used, "hw_memory_used_bytes", "gauge", Dec(m.memory_used_bytes))
  \o NodeFamily(m, enabled.memory_available, "hw_memory_available_bytes", "gauge",
                Dec(m.memory_available_bytes))
  \o NodeFamily(m, enabled.memory_usage, "hw_memory_usage_percent", "gauge",
                Fixed2(m.memory_usage_percent))
  \o (IF m.gpu_count > 0
      THEN NodeFamily(m, enabled.gpu_count, "hw_gpu_count", "gauge", Dec(m.gpu_count))
           \o NodeFamily(m, enabled.gpu_used_count, "hw_gpu_used_count", "gauge", Dec(m.gpu_used_count))
           \o Family(enabled.gpu_type_count, "hw_gpu_type_count", "gauge",
                     [k \in DOMAIN order |->
                        Sample("hw_gpu_type_count",
                               << Label("node", m.node),
                                  Label("gpu_type", escape_label_value(order[k])) >>,
                               Dec(m.gpu_type_counts[order[k]]))])
      ELSE << >>)
  \o (IF m.gpu_devices # << >>
      THEN DeviceFamily(m, enabled.gpu_memory_total, "hw_gpu_memory_total_bytes", TotalBytes(m))
           \o DeviceFamily(m, enabled.gpu_memory_used, "hw_gpu_memory_used_bytes", UsedBytes(m))
           \o DeviceFamily(m, enabled.gpu_memory_free, "hw_gpu_memory_free_bytes", FreeBytes(m))
           \o DeviceFamily(m, enabled.gpu_utilization, "hw_gpu_utilization_percent", Utilization(m))
           \o DeviceFamily(m, enabled.gpu_temperature, "hw_gpu_temperature_celsius", Temperature(m))
           \o DeviceFamily(m, enabled.gpu_power_draw, "hw_gpu_power_draw_watts", PowerDraw(m))
           \o DeviceFamily(m, enabled.gpu_power_limit, "hw_gpu_power_limit_watts", PowerLimit(m))
      ELSE << >>)

\* Inputs of to_prometheus on its own. Flag settings: all on, all off, one
\* off, one on.
EnabledSettings ==
  {[f \in FlagNames |-> b] : b \in BOOLEAN}
    \cup {[f \in FlagNames |-> f # g] : g \in FlagNames}
    \cup {[f \in FlagNames |-> f = g] : g \in FlagNames}

\* Device lists: none, one, two of one type, two of two types, and one whose
\* name and uuid hold characters that need escaping.
FormatDeviceLists ==
  {<< >>,
   << GpuInfo(RecLine(<< "0" >>, Str("T", "4"), Str("G", "1"))) >>,
   << GpuInfo(RecLine(<< "0" >>, Str("T", "4"), Str("G", "1"))),
      GpuInfo(RecLine(<< "1" >>, Str("T", "4"), Str("G", "2"))) >>,
   << GpuInfo(RecLine(<< "0" >>, Str("T", "4"), Str("G", "1"))),
      GpuInfo(RecLine(<< "1" >>, Str("A", "1"), Str("G", "2"))) >>,
   << GpuInfo(RecLine(<< "0" >>, << "T", "\"", "\\" >>, << "G", "\"", "1" >>)) >>}

\* the snapshot collect_gpu_info returns for a device list, all devices in use
SnapshotOf(devs) == [devices |-> devs, type_counts |-> CountTypes(devs), used_count |-> Len(devs)]

\* the orders in which a map with these keys can yield them
Orders(keys) ==
  {o \in [1..Cardinality(keys) -> keys] : \A k \in keys : \E i \in DOMAIN o : o[i] = k}

\* a device list with an order of its type counts
FormatInputs ==
  UNION {{[devs |-> d, order |-> o] : o \in Orders({d[i].name : i \in DOMAIN d})} :
           d \in FormatDeviceLists}

FormatCalls ==
  {[fn |-> "to_prometheus",
    args |-> [self |-> NodeMetrics(sys, SnapshotOf(in.devs)), order |-> in.order, enabled |-> e],
    outs |-> << >>] :
     sys \in SysInfos, in \in FormatInputs, e \in EnabledSettings}

\* ------------------------------------------------------------------ state
VARIABLES
  now,          \* wall clock (Instant::now()), ms
  cache,        \* GPU_CACHE's GpuCache
  cacheLock,    \* GPU_CACHE's RwLock: [writer, readers]
  sysLock,      \* SYSTEM's RwLock: the request holding the write guard
  sysSince,     \* when the SYSTEM write guard now held was taken
  pc,           \* each request's position
  query,        \* which query the executor runs: "gpu" or "apps"
  nvidia_smi,   \* the executor's located tool path
  strategy,     \* "none", "wrapper" or "direct"
  child,        \* the spawned child: "none", "running" or "reaped"
  dropped,      \* this invocation dropped a child handle that was not reaped
  tool,         \* the tool process: [mode: "none"|"hang"|"exit", left: polls]
  ldpath,       \* LD_LIBRARY_PATH override set on the spawned command
  start,        \* the direct strategy's start instant
  result,       \* the executor's return value
  gpu,          \* collect_gpu_info's locals: a snapshot
  ret,          \* what collect_gpu_info returned: [kind, log, snap]
  obs,          \* what this cycle's checks and queries came to
  nexec,        \* executor invocations made by this cycle
  nspawn,       \* tool processes started by the current invocation
  spawned,      \* whether this cycle has spawned a subprocess
  lastGood,     \* what the last successful cycle returned, and when: [set, snap, time]
  failRets,     \* what the last two cycles whose device query failed returned, since lastGood
  ncycles,      \* requests issued
  nidle,        \* idle periods taken
  env,          \* LD_LIBRARY_PATH in the environment of the exporter's process
  call          \* a call of a pure function on its own: [fn, args, out]

sched == << pc, sysLock, sysSince, ncycles, nidle >>
exec == << query, nvidia_smi, strategy, child, dropped, tool, ldpath, start, result, nexec, nspawn, spawned >>
hist == << lastGood, failRets >>
vars == << now, cache, cacheLock, gpu, ret, obs, sched, exec, hist, env, call >>

\* setup_nvml_library_path, called once by main before the server starts:
\* LD_LIBRARY_PATH is left as inherited (here: unset), or the first directory
\* of NVML_LIB_PATHS that holds the library is prepended to it.
NVML_LIB_PATHS ==
  << << "/", "host", "/", "nvidia-libs" >>,
     << "/", "usr", "/", "lib", "/", "x86_64-linux-gnu" >>,
     << "/", "usr", "/", "lib" >> >>
Unset == << >>
setup_nvml_library_path(found) == IF found = 0 THEN Unset ELSE NVML_LIB_PATHS[found]

\* No pure function is being called on its own.
NoCall == [fn |-> "none"]

\* impl Default for GpuCache (last_update: the instant of construction)
DefaultCache ==
  [devices |-> << >>, type_counts |-> EmptyCounts, used_count |-> 0,
   last_update |-> 0, last_success |-> FALSE]

NoTool == [mode |-> "none", left |-> 0]

\* ret before collect_gpu_info has returned. kind is the return statement
\* taken: "empty" (the early returns), "fresh" (the acquired snapshot) or
\* "cached" (get_cached_gpu_info()); log is the fallback read's message.
NoReturn == [kind |-> "none", log |-> "none", snap |-> EmptySnapshot]

\* obs before the cycle has checked anything. present and located are
\* "yes" or "no"; primary (the device query) is "failed", "no_records" or
\* "ok"; apps (the active-workload query) is "failed" or "ok".
NoObs == [present |-> "?", located |-> "?", primary |-> "?", apps |-> "?"]

\* The state when the server starts to serve, with LD_LIBRARY_PATH as e; c is
\* the call of a function on its own, if any.
BootWith(e, c) ==
  /\ now = 0
  /\ cache = DefaultCache
  /\ cacheLock = [writer |-> 0, readers |-> {}]
  /\ sysLock = 0
  /\ sysSince = 0
  /\ pc = [r \in Reqs |-> "idle"]
  /\ query = [r \in Reqs |-> "none"]
  /\ nvidia_smi = [r \in Reqs |-> NoPath]
  /\ strategy = [r \in Reqs |-> "none"]
  /\ child = [r \in Reqs |-> "none"]
  /\ dropped = [r \in Reqs |-> FALSE]
  /\ tool = [r \in Reqs |-> NoTool]
  /\ ldpath = [r \in Reqs |-> FALSE]
  /\ start = [r \in Reqs |-> 0]
  /\ result = [r \in Reqs |-> None]
  /\ gpu = [r \in Reqs |-> EmptySnapshot]
  /\ ret = [r \in Reqs |-> NoReturn]
  /\ obs = [r \in Reqs |-> NoObs]
  /\ nexec = [r \in Reqs |-> 0]
  /\ nspawn = [r \in Reqs |-> 0]
  /\ spawned = [r \in Reqs |-> FALSE]
  /\ lastGood = [set |-> FALSE, snap |-> EmptySnapshot, time |-> 0]
  /\ failRets = << >>
  /\ ncycles = 0
  /\ nidle = 0
  /\ env = e
  /\ call = c

Boot(e) == BootWith(e, NoCall)

\* What setup_nvml_library_path can leave in LD_LIBRARY_PATH
StartupEnvs == {setup_nvml_library_path(found) : found \in 0..Len(NVML_LIB_PATHS)}

\* No step of a request reads env, so in Init one startup value stands for
\* all of them; EnvInit starts from each.
Init == Boot(Unset)

EnvInit == \E e \in StartupEnvs : Boot(e)

\* ------------------------------------------------------------ tool locator
RECURSIVE FirstExisting(_, _)
FirstExisting(paths, existing) ==
  IF paths = << >> THEN NoPath
  ELSE IF Head(paths) \in existing THEN Head(paths)
  ELSE FirstExisting(Tail(paths), existing)

\* find_nvidia_smi(): the first candidate that exists on disk
find_nvidia_smi(existing) == FirstExisting(NVIDIA_SMI_PATHS, existing)

Candidates == {NVIDIA_SMI_PATHS[i] : i \in DOMAIN NVIDIA_SMI_PATHS}

\* ------------------------------------------------------- request handling
\* A scrape request arrives at one of the three handlers, each of which
\* calls NodeMetrics::collect().
Request(r) ==
  /\ pc[r] = "idle"
  /\ ncycles < MaxCycles
  /\ ncycles' = ncycles + 1
  /\ pc' = [pc EXCEPT ![r] = "sys_lock"]
  /\ UNCHANGED << now, cache, cacheLock, gpu, ret, obs, sysLock, sysSince, nidle, env, call, exec, hist >>

\* A variant of AcquireSystem that takes the guard while another request
\* holds it.
AcquireSystemShared(r) ==
  /\ pc[r] = "sys_lock"
  /\ sysLock' = r
  /\ sysSince' = now
  /\ pc' = [pc EXCEPT ![r] = "presence"]
  /\ UNCHANGED << now, cache, cacheLock, gpu, ret, obs, ncycles, nidle, env, call, exec, hist >>

\* let mut sys = SYSTEM.write().unwrap();
AcquireSystem(r) ==
  /\ pc[r] = "sys_lock"
  /\ sysLock = 0
  /\ sysLock' = r
  /\ sysSince' = now
  /\ pc' = [pc EXCEPT ![r] = "presence"]
  /\ UNCHANGED << now, cache, cacheLock, gpu, ret, obs, ncycles, nidle, env, call, exec, hist >>

\* has_nvidia_gpu(): whether /host/proc/driver/nvidia/version exists
has_nvidia_gpu(exists) == exists

\* collect_gpu_info: if !has_nvidia_gpu() { return (Vec::new(), HashMap::new(), 0) }
PresenceCheck(r) ==
  /\ pc[r] = "presence"
  /\ \E exists \in BOOLEAN :
       /\ obs' = [obs EXCEPT ![r].present = IF exists THEN "yes" ELSE "no"]
       /\ IF has_nvidia_gpu(exists)
          THEN /\ pc' = [pc EXCEPT ![r] = "locate"]
               /\ ret' = ret
          ELSE /\ pc' = [pc EXCEPT ![r] = "ret"]
               /\ ret' = [ret EXCEPT ![r] = [NoReturn EXCEPT !.kind = "empty"]]
  /\ UNCHANGED << now, cache, cacheLock, gpu, sysLock, sysSince, ncycles, nidle, env, call, exec, hist >>

\* A variant of Locate that serves the cache when the tool is not located.
LocateUsesCache(r) ==
  /\ pc[r] = "locate"
  /\ \E existing \in SUBSET Candidates :
       /\ obs' = [obs EXCEPT ![r].located = IF existing = {} THEN "no" ELSE "yes"]
       /\ IF find_nvidia_smi(existing) = NoPath
          THEN /\ pc' = [pc EXCEPT ![r] = "read_lock"]
               /\ UNCHANGED << query, nexec >>
          ELSE /\ pc' = [pc EXCEPT ![r] = "ex_find"]
               /\ query' = [query EXCEPT ![r] = "gpu"]
               /\ nexec' = [nexec EXCEPT ![r] = @ + 1]
  /\ UNCHANGED << now, cache, cacheLock, gpu, ret, sysLock, sysSince, ncycles, nidle, env, call, hist,
                  nvidia_smi, strategy, child, dropped, tool, ldpath, start, result,
                  nspawn, spawned >>

\* collect_gpu_info: if find_nvidia_smi().is_none() { return empty },
\* else run_nvidia_smi_with_timeout(&query_args) for the device query
Locate(r) ==
  /\ pc[r] = "locate"
  /\ \E existing \in SUBSET Candidates :
       /\ obs' = [obs EXCEPT ![r].located = IF existing = {} THEN "no" ELSE "yes"]
       /\ IF find_nvidia_smi(existing) = NoPath
          THEN /\ pc' = [pc EXCEPT ![r] = "ret"]
               /\ ret' = [ret EXCEPT ![r] = [NoReturn EXCEPT !.kind = "empty"]]
               /\ UNCHANGED << query, nexec >>
          ELSE /\ pc' = [pc EXCEPT ![r] = "ex_find"]
               /\ query' = [query EXCEPT ![r] = "gpu"]
               /\ nexec' = [nexec EXCEPT ![r] = @ + 1]
               /\ ret' = ret
  /\ UNCHANGED << now, cache, cacheLock, gpu, sysLock, sysSince, ncycles, nidle, env, call, hist,
                  nvidia_smi, strategy, child, dropped, tool, ldpath, start, result,
                  nspawn, spawned >>

\* ---------------------------------------------------------- timed executor
\* What the spawned tool does: it never exits on its own, or it exits after
\* `left` poll intervals.
ToolBehaviours ==
  {[mode |-> "hang", left |-> 0]} \cup {[mode |-> "exit", left |-> d] : d \in 0..MaxToolDelayPolls}

ExitCodes == {0, 1, TIMEOUT_EXIT_CODE}

\* The captured standard output: valid UTF-8 holding lines, or not valid UTF-8.
Stdouts(q) ==
  {[utf8 |-> TRUE, lines |-> l] : l \in IF q = "gpu" THEN GpuOutputs ELSE AppOutputs}
    \cup {[utf8 |-> FALSE, lines |-> << >>]}

\* String::from_utf8(stdout).ok()
from_utf8(stdout) == IF stdout.utf8 THEN Some(stdout.lines) ELSE None

\* match output { Ok(result) => if result.status.success() {..} else { None } }
WrapperResult(code, stdout) == IF code = 0 THEN from_utf8(stdout) ELSE None

\* Ok(Some(status)) => if status.success() { wait_with_output().ok()?; from_utf8 } else { None }
DirectResult(code, read_ok, stdout) ==
  IF code = 0 /\ read_ok THEN from_utf8(stdout) ELSE None

\* A variant of TimedOut that compares milliseconds with the timeout in seconds.
TimedOutMillis(elapsed) == elapsed > NVIDIA_SMI_TIMEOUT_SECS

\* start.elapsed() > timeout
TimedOut(elapsed) == elapsed > NVIDIA_SMI_TIMEOUT_SECS * 1000

\* A variant of LdOverride that sets the override for every tool path.
LdOverrideAlways(path) == TRUE

\* Only set LD_LIBRARY_PATH for host-mounted nvidia-smi
LdOverride(path) == IsHostMounted(path)

execFrame == << cache, cacheLock, gpu, ret, obs, sysLock, sysSince, ncycles, nidle, env, call, hist, query, nexec >>

\* run_nvidia_smi_with_timeout: let nvidia_smi = find_nvidia_smi()?;
ExecLocate(r) ==
  /\ pc[r] = "ex_find"
  /\ \E existing \in SUBSET Candidates :
       LET p == find_nvidia_smi(existing) IN
         /\ nvidia_smi' = [nvidia_smi EXCEPT ![r] = p]
         /\ pc' = [pc EXCEPT ![r] = IF p = NoPath THEN "ex_ret" ELSE "ex_which"]
  /\ result' = [result EXCEPT ![r] = None]
  /\ UNCHANGED << now, strategy, child, dropped, tool, ldpath, start, nspawn, spawned >>
  /\ UNCHANGED execFrame

\* if !has_timeout_command() { return run_nvidia_smi_direct(nvidia_smi, args) }
\* has_timeout_command() runs `which timeout` and waits for it.
HasTimeoutCommand(r) ==
  /\ pc[r] = "ex_which"
  /\ \E available \in BOOLEAN :
       /\ strategy' = [strategy EXCEPT ![r] = IF available THEN "wrapper" ELSE "direct"]
       /\ pc' = [pc EXCEPT ![r] = IF available THEN "wrap_spawn" ELSE "direct_spawn"]
  /\ spawned' = [spawned EXCEPT ![r] = TRUE]
  /\ UNCHANGED << now, nvidia_smi, child, dropped, tool, ldpath, start, result, nspawn >>
  /\ UNCHANGED execFrame

\* Command::new("timeout")...output(): the spawn. On Err the executor goes on
\* to run_nvidia_smi_direct.
WrapperSpawn(r) ==
  /\ pc[r] = "wrap_spawn"
  /\ \/ /\ pc' = [pc EXCEPT ![r] = "direct_spawn"]
        /\ strategy' = [strategy EXCEPT ![r] = "direct"]
        /\ UNCHANGED << child, tool, ldpath, nspawn, spawned >>
     \/ \E t \in ToolBehaviours :
          /\ pc' = [pc EXCEPT ![r] = "wrap_wait"]
          /\ child' = [child EXCEPT ![r] = "running"]
          /\ tool' = [tool EXCEPT ![r] = t]
          /\ ldpath' = [ldpath EXCEPT ![r] = LdOverride(nvidia_smi[r])]
          /\ nspawn' = [nspawn EXCEPT ![r] = @ + 1]
          /\ spawned' = [spawned EXCEPT ![r] = TRUE]
          /\ UNCHANGED strategy
  /\ UNCHANGED << now, nvidia_smi, dropped, start, result >>
  /\ UNCHANGED execFrame

\* A variant of WrapperWait whose wrapper never ends a tool that hangs.
WrapperWaitNoTimeout(r) ==
  /\ pc[r] = "wrap_wait"
  /\ \/ /\ tool[r].mode = "exit"
        /\ now' = now + tool[r].left * POLL_INTERVAL_MS
        /\ child' = [child EXCEPT ![r] = "reaped"]
        /\ \E code \in ExitCodes, stdout \in Stdouts(query[r]) :
             result' = [result EXCEPT ![r] = WrapperResult(code, stdout)]
        /\ pc' = [pc EXCEPT ![r] = "ex_ret"]
        /\ UNCHANGED << strategy, dropped >>
     \/ \* Err(e) from output() after the spawn: the handle is dropped
        /\ tool[r].mode = "exit"
        /\ now' = now
        /\ child' = [child EXCEPT ![r] = "none"]
        /\ dropped' = [dropped EXCEPT ![r] = TRUE]
        /\ strategy' = [strategy EXCEPT ![r] = "direct"]
        /\ pc' = [pc EXCEPT ![r] = "direct_spawn"]
        /\ UNCHANGED result
  /\ UNCHANGED << nvidia_smi, tool, ldpath, start, nspawn, spawned >>
  /\ UNCHANGED execFrame

\* A variant of WrapperWait that runs the tool again, directly, after the
\* wrapper has ended a tool that hangs.
WrapperWaitRetriesOnTimeout(r) ==
  /\ pc[r] = "wrap_wait"
  /\ \/ /\ tool[r].mode = "hang"
        /\ now' = now + NVIDIA_SMI_TIMEOUT_SECS * 1000
        /\ child' = [child EXCEPT ![r] = "reaped"]
        /\ strategy' = [strategy EXCEPT ![r] = "direct"]
        /\ pc' = [pc EXCEPT ![r] = "direct_spawn"]
        /\ UNCHANGED << result, dropped >>
     \/ /\ tool[r].mode = "exit"
        /\ now' = now + tool[r].left * POLL_INTERVAL_MS
        /\ child' = [child EXCEPT ![r] = "reaped"]
        /\ \E code \in ExitCodes, stdout \in Stdouts(query[r]) :
             result' = [result EXCEPT ![r] = WrapperResult(code, stdout)]
        /\ pc' = [pc EXCEPT ![r] = "ex_ret"]
        /\ UNCHANGED << strategy, dropped >>
     \/ /\ now' = now
        /\ child' = [child EXCEPT ![r] = "none"]
        /\ dropped' = [dropped EXCEPT ![r] = TRUE]
        /\ strategy' = [strategy EXCEPT ![r] = "direct"]
        /\ pc' = [pc EXCEPT ![r] = "direct_spawn"]
        /\ UNCHANGED result
  /\ UNCHANGED << nvidia_smi, tool, ldpath, start, nspawn, spawned >>
  /\ UNCHANGED execFrame

\* Command::new("timeout")...output(): reading the pipes and waiting for the
\* wrapper, then the match on its result. A tool that hangs is ended by the
\* wrapper after the timeout, which then exits with TIMEOUT_EXIT_CODE.
WrapperWait(r) ==
  /\ pc[r] = "wrap_wait"
  /\ \/ /\ tool[r].mode = "hang"
        /\ now' = now + NVIDIA_SMI_TIMEOUT_SECS * 1000
        /\ child' = [child EXCEPT ![r] = "reaped"]
        /\ result' = [result EXCEPT ![r] = WrapperResult(TIMEOUT_EXIT_CODE, [utf8 |-> TRUE, lines |-> << >>])]
        /\ pc' = [pc EXCEPT ![r] = "ex_ret"]
        /\ UNCHANGED << strategy, dropped >>
     \/ /\ tool[r].mode = "exit"
        /\ now' = now + tool[r].left * POLL_INTERVAL_MS
        /\ child' = [child EXCEPT ![r] = "reaped"]
        /\ \E code \in ExitCodes, stdout \in Stdouts(query[r]) :
             result' = [result EXCEPT ![r] = WrapperResult(code, stdout)]
        /\ pc' = [pc EXCEPT ![r] = "ex_ret"]
        /\ UNCHANGED << strategy, dropped >>
     \/ \* Err(e) from output() after the spawn: the handle is dropped
        /\ now' = now
        /\ child' = [child EXCEPT ![r] = "none"]
        /\ dropped' = [dropped EXCEPT ![r] = TRUE]
        /\ strategy' = [strategy EXCEPT ![r] = "direct"]
        /\ pc' = [pc EXCEPT ![r] = "direct_spawn"]
        /\ UNCHANGED result
  /\ UNCHANGED << nvidia_smi, tool, ldpath, start, nspawn, spawned >>
  /\ UNCHANGED execFrame

\* run_nvidia_smi_direct: let mut child = cmd.spawn().ok()?; let start = Instant::now();
DirectSpawn(r) ==
  /\ pc[r] = "direct_spawn"
  /\ \/ /\ pc' = [pc EXCEPT ![r] = "ex_ret"]
        /\ result' = [result EXCEPT ![r] = None]
        /\ UNCHANGED << child, tool, ldpath, start, nspawn, spawned >>
     \/ \E t \in ToolBehaviours :
          /\ pc' = [pc EXCEPT ![r] = "poll"]
          /\ child' = [child EXCEPT ![r] = "running"]
          /\ tool' = [tool EXCEPT ![r] = t]
          /\ ldpath' = [ldpath EXCEPT ![r] = LdOverride(nvidia_smi[r])]
          /\ start' = [start EXCEPT ![r] = now]
          /\ nspawn' = [nspawn EXCEPT ![r] = @ + 1]
          /\ spawned' = [spawned EXCEPT ![r] = TRUE]
          /\ UNCHANGED result
  /\ UNCHANGED << now, nvidia_smi, strategy, dropped >>
  /\ UNCHANGED execFrame

\* One iteration of run_nvidia_smi_direct's loop: match child.try_wait()
DirectPoll(r) ==
  /\ pc[r] = "poll"
  /\ \/ \* Err(e) => return None
        /\ now - start[r] <= MaxToolDelayPolls * POLL_INTERVAL_MS
        /\ result' = [result EXCEPT ![r] = None]
        /\ pc' = [pc EXCEPT ![r] = "ex_ret"]
        /\ UNCHANGED << now, child, tool >>
     \/ \* Ok(Some(status)): the child has exited and try_wait has reaped it
        /\ tool[r].mode = "exit" /\ tool[r].left = 0
        /\ child' = [child EXCEPT ![r] = "reaped"]
        /\ \E code \in ExitCodes, read_ok \in BOOLEAN, stdout \in Stdouts(query[r]) :
             result' = [result EXCEPT ![r] = DirectResult(code, read_ok, stdout)]
        /\ pc' = [pc EXCEPT ![r] = "ex_ret"]
        /\ UNCHANGED << now, tool >>
     \/ \* Ok(None), timed out: child.kill(); child.wait(); return None
        /\ ~(tool[r].mode = "exit" /\ tool[r].left = 0)
        /\ TimedOut(now - start[r])
        /\ child' = [child EXCEPT ![r] = "reaped"]
        /\ result' = [result EXCEPT ![r] = None]
        /\ pc' = [pc EXCEPT ![r] = "ex_ret"]
        /\ UNCHANGED << now, tool >>
     \/ \* Ok(None), not timed out: thread::sleep(100 ms)
        /\ ~(tool[r].mode = "exit" /\ tool[r].left = 0)
        /\ ~TimedOut(now - start[r])
        /\ now' = now + POLL_INTERVAL_MS
        /\ tool' = [tool EXCEPT ![r].left = IF @ > 0 THEN @ - 1 ELSE 0]
        /\ UNCHANGED << child, result, pc >>
  /\ UNCHANGED << nvidia_smi, strategy, dropped, ldpath, start, nspawn, spawned >>
  /\ UNCHANGED execFrame

\* ------------------------------------------------------ snapshot assembler
\* The executor's locals go out of scope when it returns.
ExecReturned(r) ==
  /\ nvidia_smi' = [nvidia_smi EXCEPT ![r] = NoPath]
  /\ strategy' = [strategy EXCEPT ![r] = "none"]
  /\ child' = [child EXCEPT ![r] = "none"]
  /\ dropped' = [dropped EXCEPT ![r] = FALSE]
  /\ tool' = [tool EXCEPT ![r] = NoTool]
  /\ ldpath' = [ldpath EXCEPT ![r] = FALSE]
  /\ start' = [start EXCEPT ![r] = 0]
  /\ result' = [result EXCEPT ![r] = None]
  /\ nspawn' = [nspawn EXCEPT ![r] = 0]

\* A variant of UseCache that falls back on a failed query only.
UseCacheOnlyOnNone(output, gpu_devices) == ~output.some

\* collect_gpu_info falls back to get_cached_gpu_info() when the device query
\* returned None, or returned output that parsed to no record.
UseCache(output, gpu_devices) == ~output.some \/ gpu_devices = << >>

\* collect_gpu_info: match run_nvidia_smi_with_timeout(&query_args).
\* On the fallback get_cached_gpu_info() is called; otherwise the type counts
\* are computed and get_gpu_used_count runs the second query.
GpuQueryDone(r) ==
  /\ pc[r] = "ex_ret"
  /\ query[r] = "gpu"
  /\ LET gpu_devices == ParsedOutputs[result[r].lines] IN
       /\ obs' = [obs EXCEPT ![r].primary = IF ~result[r].some THEN "failed"
                                            ELSE IF gpu_devices = << >> THEN "no_records"
                                            ELSE "ok"]
       /\ IF UseCache(result[r], gpu_devices)
          THEN /\ pc' = [pc EXCEPT ![r] = "read_lock"]
               /\ query' = [query EXCEPT ![r] = "none"]
               /\ UNCHANGED << gpu, nexec >>
          ELSE /\ pc' = [pc EXCEPT ![r] = "ex_find"]
               /\ gpu' = [gpu EXCEPT ![r] = [devices |-> gpu_devices,
                                             type_counts |-> CountTypes(gpu_devices),
                                             used_count |-> 0]]
               /\ query' = [query EXCEPT ![r] = "apps"]
               /\ nexec' = [nexec EXCEPT ![r] = @ + 1]
  /\ ExecReturned(r)
  /\ UNCHANGED << now, cache, cacheLock, ret, sysLock, sysSince, ncycles, nidle, env, call, hist, spawned >>

\* A variant of get_gpu_used_count that counts every device as used on failure.
UsedCountAllOnFailure(gpu_devices, output) ==
  IF output.some THEN CountUsed(gpu_devices, output) ELSE Len(gpu_devices)

\* get_gpu_used_count: match run_nvidia_smi_with_timeout(&query_args)
get_gpu_used_count(gpu_devices, output) == CountUsed(gpu_devices, output)

\* let gpu_used_count = get_gpu_used_count(&gpu_devices);
AppsQueryDone(r) ==
  /\ pc[r] = "ex_ret"
  /\ query[r] = "apps"
  /\ obs' = [obs EXCEPT ![r].apps = IF result[r].some THEN "ok" ELSE "failed"]
  /\ gpu' = [gpu EXCEPT ![r].used_count = get_gpu_used_count(gpu[r].devices, result[r])]
  /\ query' = [query EXCEPT ![r] = "none"]
  /\ pc' = [pc EXCEPT ![r] = "write_lock"]
  /\ ExecReturned(r)
  /\ UNCHANGED << now, cache, cacheLock, ret, sysLock, sysSince, ncycles, nidle, env, call, hist, nexec, spawned >>

cacheFrame == << now, gpu, obs, sysLock, sysSince, ncycles, nidle, env, call, exec >>

\* if let Ok(mut cache) = GPU_CACHE.write()
WriteLock(r) ==
  /\ pc[r] = "write_lock"
  /\ cacheLock.writer = 0 /\ cacheLock.readers = {}
  /\ cacheLock' = [cacheLock EXCEPT !.writer = r]
  /\ pc' = [pc EXCEPT ![r] = "w_devices"]
  /\ UNCHANGED << cache, ret, hist >>
  /\ UNCHANGED cacheFrame

\* cache.devices = gpu_devices.clone();
WriteDevices(r) ==
  /\ pc[r] = "w_devices"
  /\ cache' = [cache EXCEPT !.devices = gpu[r].devices]
  /\ pc' = [pc EXCEPT ![r] = "w_type_counts"]
  /\ UNCHANGED << cacheLock, ret, hist >>
  /\ UNCHANGED cacheFrame

\* A variant of WriteTypeCounts that leaves the stored type counts alone.
WriteTypeCountsSkipped(r) ==
  /\ pc[r] = "w_type_counts"
  /\ pc' = [pc EXCEPT ![r] = "w_used_count"]
  /\ UNCHANGED << cache, cacheLock, ret, hist >>
  /\ UNCHANGED cacheFrame

\* cache.type_counts = gpu_type_counts.clone();
WriteTypeCounts(r) ==
  /\ pc[r] = "w_type_counts"
  /\ cache' = [cache EXCEPT !.type_counts = gpu[r].type_counts]
  /\ pc' = [pc EXCEPT ![r] = "w_used_count"]
  /\ UNCHANGED << cacheLock, ret, hist >>
  /\ UNCHANGED cacheFrame

\* cache.used_count = gpu_used_count;
WriteUsedCount(r) ==
  /\ pc[r] = "w_used_count"
  /\ cache' = [cache EXCEPT !.used_count = gpu[r].used_count]
  /\ pc' = [pc EXCEPT ![r] = "w_last_update"]
  /\ UNCHANGED << cacheLock, ret, hist >>
  /\ UNCHANGED cacheFrame

\* cache.last_update = Instant::now();
WriteLastUpdate(r) ==
  /\ pc[r] = "w_last_update"
  /\ cache' = [cache EXCEPT !.last_update = now]
  /\ pc' = [pc EXCEPT ![r] = "w_last_success"]
  /\ UNCHANGED << cacheLock, ret, hist >>
  /\ UNCHANGED cacheFrame

\* A variant of WriteLastSuccess that leaves the success flag alone.
WriteLastSuccessUnset(r) ==
  /\ pc[r] = "w_last_success"
  /\ cacheLock' = [cacheLock EXCEPT !.writer = 0]
  /\ ret' = [ret EXCEPT ![r] = [NoReturn EXCEPT !.kind = "fresh", !.snap = gpu[r]]]
  /\ lastGood' = [set |-> TRUE, snap |-> gpu[r], time |-> now]
  /\ failRets' = << >>
  /\ pc' = [pc EXCEPT ![r] = "ret"]
  /\ UNCHANGED cache
  /\ UNCHANGED cacheFrame

\* cache.last_success = true; the write guard is dropped at the end of the
\* block and (gpu_devices, gpu_type_counts, gpu_used_count) is returned.
WriteLastSuccess(r) ==
  /\ pc[r] = "w_last_success"
  /\ cache' = [cache EXCEPT !.last_success = TRUE]
  /\ cacheLock' = [cacheLock EXCEPT !.writer = 0]
  /\ ret' = [ret EXCEPT ![r] = [NoReturn EXCEPT !.kind = "fresh", !.snap = gpu[r]]]
  /\ lastGood' = [set |-> TRUE, snap |-> gpu[r], time |-> now]
  /\ failRets' = << >>
  /\ pc' = [pc EXCEPT ![r] = "ret"]
  /\ UNCHANGED cacheFrame

\* get_cached_gpu_info: if let Ok(cache) = GPU_CACHE.read()
ReadLock(r) ==
  /\ pc[r] = "read_lock"
  /\ cacheLock.writer = 0
  /\ cacheLock' = [cacheLock EXCEPT !.readers = @ \cup {r}]
  /\ pc' = [pc EXCEPT ![r] = "read"]
  /\ UNCHANGED << cache, ret, hist >>
  /\ UNCHANGED cacheFrame

\* cache.last_update.elapsed().as_secs()
AgeSecs(c, t) == (t - c.last_update) \div 1000

\* which message get_cached_gpu_info logs
CacheLog(c, t) ==
  IF c.devices = << >> THEN "no_cache"
  ELSE IF AgeSecs(c, t) > GPU_CACHE_MAX_AGE_SECS THEN "stale"
  ELSE "cached"

\* A variant of CachedSnapshot that rejects a snapshot older than the threshold.
CachedSnapshotUnlessStale(c, t) ==
  IF c.devices = << >> \/ AgeSecs(c, t) > GPU_CACHE_MAX_AGE_SECS THEN EmptySnapshot
  ELSE [devices |-> c.devices, type_counts |-> c.type_counts, used_count |-> c.used_count]

\* A variant of CachedSnapshot that returns used count 0.
CachedSnapshotDropsUsed(c, t) ==
  IF c.devices = << >> THEN EmptySnapshot
  ELSE [devices |-> c.devices, type_counts |-> c.type_counts, used_count |-> 0]

\* what get_cached_gpu_info returns under the read guard
CachedSnapshot(c, t) ==
  IF c.devices = << >> THEN EmptySnapshot
  ELSE [devices |-> c.devices, type_counts |-> c.type_counts, used_count |-> c.used_count]

\* The last two returns of cycles whose device query failed
Remember(rets, snap) ==
  (IF rets = << >> THEN << >> ELSE << rets[Len(rets)] >>) \o << snap >>

\* A variant of ReadCache that also sets the cache's capture time.
ReadCacheRefreshes(r) ==
  /\ pc[r] = "read"
  /\ ret' = [ret EXCEPT ![r].kind = "cached",
                        ![r].log = CacheLog(cache, now),
                        ![r].snap = CachedSnapshot(cache, now)]
  /\ cache' = [cache EXCEPT !.last_update = now]
  /\ failRets' = IF obs[r].primary = "failed"
                 THEN Remember(failRets, CachedSnapshot(cache, now))
                 ELSE failRets
  /\ cacheLock' = [cacheLock EXCEPT !.readers = @ \ {r}]
  /\ pc' = [pc EXCEPT ![r] = "ret"]
  /\ UNCHANGED lastGood
  /\ UNCHANGED cacheFrame

\* get_cached_gpu_info: the body under the read guard, and the guard's drop
ReadCache(r) ==
  /\ pc[r] = "read"
  /\ ret' = [ret EXCEPT ![r].kind = "cached",
                        ![r].log = CacheLog(cache, now),
                        ![r].snap = CachedSnapshot(cache, now)]
  /\ failRets' = IF obs[r].primary = "failed"
                 THEN Remember(failRets, CachedSnapshot(cache, now))
                 ELSE failRets
  /\ cacheLock' = [cacheLock EXCEPT !.readers = @ \ {r}]
  /\ pc' = [pc EXCEPT ![r] = "ret"]
  /\ UNCHANGED << cache, lastGood >>
  /\ UNCHANGED cacheFrame

\* NodeMetrics::collect builds the NodeMetrics value from what
\* collect_gpu_info returned and returns, which drops the SYSTEM write guard;
\* the handler turns the value into the response.
Return(r) ==
  /\ pc[r] = "ret"
  /\ sysLock' = 0
  /\ sysSince' = 0
  /\ pc' = [pc EXCEPT ![r] = "idle"]
  /\ gpu' = [gpu EXCEPT ![r] = EmptySnapshot]
  /\ ret' = [ret EXCEPT ![r] = NoReturn]
  /\ obs' = [obs EXCEPT ![r] = NoObs]
  /\ nexec' = [nexec EXCEPT ![r] = 0]
  /\ spawned' = [spawned EXCEPT ![r] = FALSE]
  /\ UNCHANGED << now, cache, cacheLock, ncycles, nidle, env, call, hist,
                  query, nvidia_smi, strategy, child, dropped, tool, ldpath, start, result, nspawn >>

\* An idle period: as long as the staleness threshold
IdleStep == GPU_CACHE_MAX_AGE_SECS * 1000

\* No request is being served and time passes.
Idle ==
  /\ sysLock = 0
  /\ nidle < MaxIdle
  /\ nidle' = nidle + 1
  /\ now' = now + IdleStep
  /\ UNCHANGED << cache, cacheLock, gpu, ret, obs, pc, sysLock, sysSince, ncycles, exec, hist, env, call >>

Step(r) ==
  \/ AcquireSystem(r) \/ PresenceCheck(r) \/ Locate(r)
  \/ ExecLocate(r) \/ HasTimeoutCommand(r) \/ WrapperSpawn(r) \/ WrapperWait(r)
  \/ DirectSpawn(r) \/ DirectPoll(r)
  \/ GpuQueryDone(r) \/ AppsQueryDone(r)
  \/ WriteLock(r) \/ WriteDevices(r) \/ WriteTypeCounts(r) \/ WriteUsedCount(r)
  \/ WriteLastUpdate(r) \/ WriteLastSuccess(r)
  \/ ReadLock(r) \/ ReadCache(r)
  \/ Return(r)

Next == (\E r \in Reqs : Request(r) \/ Step(r)) \/ Idle

Spec == Init /\ [][Next]_vars

\* The same steps, started with any LD_LIBRARY_PATH the startup can leave.
EnvSpec == EnvInit /\ [][Next]_vars

\* Every thread that can take a step eventually takes one.
FairSpec == Spec /\ \A r \in Reqs : WF_vars(Step(r))

\* ------------------------------------------------- functions on their own
callFrame == << now, cache, cacheLock, gpu, ret, obs, sched, exec, hist, env >>

\* One call of get_gpu_used_count(&gpu_devices) on the input in call.
UsedCountCall ==
  /\ call.fn = "get_gpu_used_count"
  /\ Len(call.outs) < MaxCalls
  /\ call' = [call EXCEPT !.outs = Append(@, get_gpu_used_count(call.args.gpu_devices, call.args.output))]
  /\ UNCHANGED callFrame

\* One call of parse_nvidia_smi_output(&output) on the input in call.
ParseCall ==
  /\ call.fn = "parse_nvidia_smi_output"
  /\ Len(call.outs) < MaxCalls
  /\ call' = [call EXCEPT !.outs = Append(@, parse_nvidia_smi_output(call.args.output))]
  /\ UNCHANGED callFrame

ParseInit == \E c \in ParseCalls : BootWith(Unset, c)
ParseSpec == ParseInit /\ [][ParseCall]_vars

\* A variant of FormatCall in which the type counts are walked in an order
\* chosen anew at each call.
FormatCallFreshOrder ==
  /\ call.fn = "to_prometheus"
  /\ Len(call.outs) < MaxCalls
  /\ \E o \in Orders(DOMAIN call.args.self.gpu_type_counts) :
       call' = [call EXCEPT !.outs = Append(@, to_prometheus(call.args.self, o, call.args.enabled))]
  /\ UNCHANGED callFrame

\* One call of metrics.to_prometheus(&enabled) on the input in call.
FormatCall ==
  /\ call.fn = "to_prometheus"
  /\ Len(call.outs) < MaxCalls
  /\ call' = [call EXCEPT !.outs =
                Append(@, to_prometheus(call.args.self, call.args.order, call.args.enabled))]
  /\ UNCHANGED callFrame

FormatInit == \E c \in FormatCalls : BootWith(Unset, c)
FormatSpec == FormatInit /\ [][FormatCall]_vars

UsedCountInit == \E c \in UsedCountCalls : BootWith(Unset, c)
UsedCountSpec == UsedCountInit /\ [][UsedCountCall]_vars

\* ------------------------------------------------------------- properties
Timeout == NVIDIA_SMI_TIMEOUT_SECS * 1000

\* the cache's snapshot fields
CacheContents ==
  [devices |-> cache.devices, type_counts |-> cache.type_counts, used_count |-> cache.used_count]

\* positions inside the block that holds the cache's write guard
WritePcs == {"w_devices", "w_type_counts", "w_used_count", "w_last_update", "w_last_success"}

\* C1: once a successful cycle has populated the cache, every cycle whose
\* device query fails returns the snapshot of the last successful cycle, so
\* do two such cycles in a row, and the cache's capture time is still the
\* time of that successful cycle.
C1_FailedCyclesServeLastGood ==
  \A r \in Reqs :
    (pc[r] = "ret" /\ obs[r].primary = "failed" /\ lastGood.set) =>
      /\ ret[r].snap = lastGood.snap
      /\ \A i \in DOMAIN failRets : failRets[i] = lastGood.snap
      /\ cache.last_update = lastGood.time

\* Two failed cycles in a row after a successful one, later than its capture.
C1_Witness ==
  \E r \in Reqs :
    /\ pc[r] = "ret" /\ obs[r].primary = "failed" /\ lastGood.set
    /\ Len(failRets) = 2
    /\ now > lastGood.time

\* C2: a step changes the cache only if it is taken inside the write block by
\* a cycle whose device query succeeded and parsed to at least one record;
\* no other cycle changes any field of the cache.
C2_OnlySuccessfulCyclesWrite ==
  [][cache' # cache =>
       \E r \in Reqs : /\ pc[r] \in WritePcs
                       /\ cacheLock.writer = r
                       /\ obs[r].primary = "ok"
                       /\ gpu[r].devices # << >>]_vars

\* A cycle whose output parsed to no record has returned, and the cache still
\* holds what the last successful cycle wrote, and when.
C2_Witness ==
  \E r \in Reqs :
    /\ pc[r] = "ret" /\ obs[r].primary = "no_records"
    /\ cache.last_success /\ lastGood.set
    /\ CacheContents = lastGood.snap
    /\ cache.last_update = lastGood.time
    /\ now > cache.last_update

\* C3: with hardware present and the tool located, a cycle whose device query
\* fails, or parses to no record, returns the cache's contents.
C3_FailureReturnsCache ==
  \A r \in Reqs :
    (/\ pc[r] = "ret"
     /\ obs[r].present = "yes" /\ obs[r].located = "yes"
     /\ obs[r].primary \in {"failed", "no_records"}) =>
      /\ ret[r].kind = "cached"
      /\ ret[r].snap = CacheContents

\* A cycle whose output parsed to no record returned a populated cache.
C3_Witness ==
  \E r \in Reqs :
    /\ pc[r] = "ret" /\ obs[r].primary = "no_records"
    /\ ret[r].snap.devices # << >>
    /\ ret[r].snap.used_count > 0

\* C4: a cycle whose presence check is false, or whose tool is not located,
\* returns the empty snapshot and has spawned no subprocess and invoked no
\* executor, whatever the cache holds.
C4_AbsentReturnsEmpty ==
  \A r \in Reqs :
    (/\ pc[r] = "ret"
     /\ \/ obs[r].present = "no"
        \/ obs[r].present = "yes" /\ obs[r].located = "no") =>
      /\ ret[r].snap = EmptySnapshot
      /\ ~spawned[r]
      /\ nexec[r] = 0

\* The tool was not located while the cache is Populated.
C4_Witness ==
  \E r \in Reqs :
    /\ pc[r] = "ret" /\ obs[r].present = "yes" /\ obs[r].located = "no"
    /\ cache.devices # << >>
    /\ ret[r].snap = EmptySnapshot

\* C5: every non-empty snapshot served from the cache is, in all three
\* fields, the snapshot one successful cycle wrote; the cache is read only
\* under the read guard, never while a writer is inside the write block; and
\* whenever no writer is inside it the cache holds one cycle's snapshot.
C5_ReadersSeeWholeSnapshots ==
  /\ \A r \in Reqs :
       (pc[r] = "ret" /\ ret[r].kind = "cached" /\ ret[r].snap # EmptySnapshot) =>
         lastGood.set /\ ret[r].snap = lastGood.snap
  /\ \A r \in Reqs : pc[r] = "read" => cacheLock.writer = 0 /\ r \in cacheLock.readers
  /\ cacheLock.writer # 0 => cacheLock.readers = {}
  /\ cacheLock.writer = 0 =>
       CacheContents = (IF lastGood.set THEN lastGood.snap ELSE EmptySnapshot)

\* A request was served from the populated cache while another one waits.
C5_Witness ==
  \E r, q \in Reqs :
    /\ r # q
    /\ pc[r] = "ret" /\ ret[r].kind = "cached" /\ ret[r].snap.devices # << >>
    /\ pc[q] = "sys_lock"

\* C6: whenever the executor returns, the child it spawned has been reaped
\* and no child handle was dropped unreaped.
C6_ExecutorReapsChild ==
  \A r \in Reqs :
    pc[r] = "ex_ret" => child[r] \in {"none", "reaped"} /\ ~dropped[r]

C8_EveryRequestReturns ==
  \A r \in Reqs : (pc[r] = "sys_lock") ~> (pc[r] = "ret")

\* A request waits for the SYSTEM lock while another one polls a hung tool.
C8_Witness ==
  \E r, q \in Reqs :
    /\ pc[r] = "sys_lock"
    /\ pc[q] = "poll" /\ tool[q].mode = "hang" /\ now - start[q] >= Timeout

\* C9: when the device query gave at least one record and the
\* active-workload query failed, the cycle returns the parsed devices and
\* their type counts with used count 0, and that is what the cache holds.
C9_FailedAppsQueryGivesZero ==
  \A r \in Reqs :
    (pc[r] = "ret" /\ obs[r].primary = "ok" /\ obs[r].apps = "failed") =>
      /\ ret[r].kind = "fresh"
      /\ ret[r].snap.devices # << >>
      /\ ret[r].snap.devices = gpu[r].devices
      /\ ret[r].snap.type_counts = CountTypes(gpu[r].devices)
      /\ ret[r].snap.used_count = 0
      /\ CacheContents = ret[r].snap

\* The write block has just replaced a positive cached used count by 0.
C9_Witness ==
  \E r \in Reqs :
    /\ pc[r] = "w_last_update" /\ obs[r].apps = "failed"
    /\ lastGood.set /\ lastGood.snap.used_count > 0
    /\ cache.used_count = 0

\* C10: a fallback read returns the stored snapshot of a Populated cache
\* whatever its age, the age deciding the log message alone, and the empty
\* snapshot of an Empty cache.
C10_FallbackReadIgnoresAge ==
  \A r \in Reqs :
    (pc[r] = "ret" /\ ret[r].kind = "cached") =>
      IF cache.last_success
      THEN /\ ret[r].snap = CacheContents
           /\ ret[r].snap.devices # << >>
           /\ ret[r].log = (IF (now - cache.last_update) \div 1000 > GPU_CACHE_MAX_AGE_SECS
                            THEN "stale" ELSE "cached")
      ELSE /\ ret[r].snap = EmptySnapshot
           /\ ret[r].log = "no_cache"

\* A fallback read served a snapshot older than the staleness threshold.
C10_Witness ==
  \E r \in Reqs :
    /\ pc[r] = "ret" /\ ret[r].kind = "cached"
    /\ ret[r].log = "stale"
    /\ ret[r].snap.devices # << >>

\* C11: whenever no writer is inside the write block the cached device list
\* is non-empty exactly when the success flag is true; once the flag is true
\* no step clears it or empties the device list; and from then on every cycle
\* in which hardware is present and the tool is located returns a non-empty
\* device list.
C11_PopulatedCacheStaysPopulated ==
  /\ [](cacheLock.writer = 0 => (cache.devices # << >> <=> cache.last_success))
  /\ [][cache.last_success => (cache'.last_success /\ cache'.devices # << >>)]_vars
  /\ [](\A r \in Reqs :
          (/\ pc[r] = "ret" /\ cache.last_success
           /\ obs[r].present = "yes" /\ obs[r].located = "yes") =>
            ret[r].snap.devices # << >>)

\* After the cache was populated, a cycle whose device query failed and a
\* later cycle whose output parsed to no record both returned devices.
C11_Witness ==
  \E r \in Reqs :
    /\ pc[r] = "ret" /\ obs[r].primary = "no_records"
    /\ cache.last_success /\ cache.devices # << >>
    /\ Len(failRets) = 1
    /\ ret[r].snap.devices # << >>

C19_OverrideScopedToCommand ==
  /\ [][env' = env]_vars
  /\ [](\A r \in Reqs :
          (strategy[r] \in {"wrapper", "direct"} /\ child[r] # "none") =>
            (ldpath[r] <=> nvidia_smi[r] = NVIDIA_SMI_PATHS[3]))

\* The wrapper runs a host-mounted tool with the override while the
\* exporter's own LD_LIBRARY_PATH holds what the startup left there.
C19_Witness ==
  \E r \in Reqs :
    /\ pc[r] = "wrap_wait" /\ child[r] = "running"
    /\ nvidia_smi[r] = NVIDIA_SMI_PATHS[3] /\ ldpath[r]
    /\ env = NVML_LIB_PATHS[2]

\* the sum of a map's values
RECURSIVE SumCounts(_)
SumCounts(counts) ==
  IF DOMAIN counts = {} THEN 0
  ELSE LET n == CHOOSE n \in DOMAIN counts : TRUE IN
         counts[n] + SumCounts([k \in DOMAIN counts \ {n} |-> counts[k]])

\* C13: in the NodeMetrics value of every served snapshot the device count
\* is the length of the device list, the type counts have one entry per name
\* in the list, equal to the number of devices of that name (so they sum to
\* the device count), and the used count is at most the device count.
C13_CountsAgreeWithDevices ==
  \A r \in Reqs :
    pc[r] = "ret" =>
      \A sys \in SysInfos :
        LET m == NodeMetrics(sys, ret[r].snap) IN
          /\ m.gpu_count = Len(m.gpu_devices)
          /\ DOMAIN m.gpu_type_counts = {m.gpu_devices[i].name : i \in DOMAIN m.gpu_devices}
          /\ \A n \in DOMAIN m.gpu_type_counts :
               m.gpu_type_counts[n] =
                 Cardinality({i \in DOMAIN m.gpu_devices : m.gpu_devices[i].name = n})
          /\ SumCounts(m.gpu_type_counts) = m.gpu_count
          /\ m.gpu_used_count <= m.gpu_count

\* A snapshot of two devices of one type, both in use, was served from the
\* cache.
C13_Witness ==
  \E r \in Reqs :
    /\ pc[r] = "ret" /\ ret[r].kind = "cached"
    /\ Len(ret[r].snap.devices) = 2
    /\ Cardinality(DOMAIN ret[r].snap.type_counts) = 1
    /\ ret[r].snap.used_count = 2

\* the trimmed text of line j of an output
TrimmedLine(lines, j) == Trim(LineText(lines[j]))

\* C12: the used count is the number of devices whose uuid is the trimmed
\* text of some non-empty line of the output; a line naming no device adds
\* nothing, a repeated line counts once, an output with no non-empty line
\* gives 0, no output gives 0, and the device list is left as it was.
C12_UsedCountIsDevicesNamed ==
  /\ [](call.fn = "get_gpu_used_count" =>
         \A k \in DOMAIN call.outs :
           LET devs  == call.args.gpu_devices
               res   == call.args.output
               named == {i \in DOMAIN devs :
                           \E j \in DOMAIN res.lines :
                             /\ TrimmedLine(res.lines, j) # << >>
                             /\ TrimmedLine(res.lines, j) = devs[i].uuid}
           IN /\ res.some => call.outs[k] = Cardinality(named)
              /\ ~res.some => call.outs[k] = 0
              /\ call.outs[k] <= Len(devs)
              /\ (\A j \in DOMAIN res.lines : TrimmedLine(res.lines, j) = << >>)
                   => call.outs[k] = 0)
  /\ [][call.fn = "get_gpu_used_count" => call'.args = call.args]_vars

\* The output names the one device twice, once padded, and a device that
\* does not exist: the count is 1.
C12_Witness ==
  /\ call.fn = "get_gpu_used_count"
  /\ Len(call.args.gpu_devices) = 1
  /\ call.args.output.some
  /\ call.args.output.lines =
       << << Str("G", "1") >>, << << " ", "G", "1", " " >> >>, << Str("G", "9") >> >>
  /\ call.outs = << 1 >>

\* a line that is not blank and has at least MIN_FIELDS fields
HasRecord(line) == Trim(LineText(line)) # << >> /\ Len(line) >= MIN_FIELDS
\* a line that is blank or has at least MIN_FIELDS fields
NotShort(line) == Trim(LineText(line)) = << >> \/ Len(line) >= MIN_FIELDS

\* C15: the records are those of the non-blank lines with at least
\* MIN_FIELDS fields, one each and in the order of the lines: record k is
\* the record the k-th such line gives when parsed alone, and the output
\* without its short lines gives the same records.
C15_OneRecordPerFullLine ==
  call.fn = "parse_nvidia_smi_output" =>
    \A c \in DOMAIN call.outs :
      LET lines == call.args.output
          full  == SelectSeq(lines, HasRecord)
          recs  == call.outs[c]
      IN /\ Len(recs) = Len(full)
         /\ \A k \in DOMAIN full : << recs[k] >> = parse_nvidia_smi_output(<< full[k] >>)
         /\ recs = parse_nvidia_smi_output(SelectSeq(lines, NotShort))

\* A short line between two full lines: two records, in the lines' order.
C15_Witness ==
  /\ call.fn = "parse_nvidia_smi_output"
  /\ call.args.output = << BaseLine, ShortLine, PaddedLine >>
  /\ Len(call.outs) >= 1
  /\ Len(call.outs[1]) = 2
  /\ call.outs[1][1].uuid = Str("G", "1") /\ call.outs[1][2].uuid = Str("G", "2")
  /\ call.outs[1][2].index = 1

\* the number a well-formed text stands for under each parse rule; any
\* other text gives 0
MibTexts == (<< "7" >> :> 7) @@ (<< "1", "6", " ", "M", "i", "B" >> :> 16)
              @@ (<< "1", "6", " ", "M", "B" >> :> 16) @@ (Str("1", "6") :> 16)
              @@ (<< "4" >> :> 4) @@ (Str("1", "2") :> 12)
              @@ (Str("3", "2") :> 32) @@ (<< "8" >> :> 8) @@ (Str("2", "4") :> 24)
PercentTexts == (<< "7" >> :> 7) @@ (<< "4", "5", " ", "%" >> :> 45) @@ (<< "4", "5", "%" >> :> 45)
              @@ (<< "5" >> :> 5) @@ (<< "9" >> :> 9)
IntTexts == (<< "7" >> :> 7) @@ (Str("4", "0") :> 40) @@ (<< "0" >> :> 0) @@ (<< "1" >> :> 1)
              @@ (Str("5", "0") :> 50)
WattsTexts == (<< "7" >> :> 7) @@ (<< "1", "5", ".", "7", "5", " ", "W" >> :> 15)
              @@ (<< "1", "5", ".", "7", "5" >> :> 15) @@ (<< "-", "1" >> :> 0)
              @@ (Str("7", "0") :> 70) @@ (Str("9", "0") :> 90)
              @@ (Str("6", "0") :> 60) @@ (Str("8", "0") :> 80)
ValueOf(texts, s) == IF s \in DOMAIN texts THEN texts[s] ELSE 0

\* the numeric fields of a record, by the position of their text
NumberAt(rec, i) ==
  CASE i = 1 -> rec.index
    [] i = 4 -> rec.memory_total_mb
    [] i = 5 -> rec.memory_used_mb
    [] i = 6 -> rec.memory_free_mb
    [] i = 7 -> rec.utilization_percent
    [] i = 8 -> rec.temperature_celsius
    [] i = 9 -> rec.power_draw_watts
    [] i = 10 -> rec.power_limit_watts

\* C16: a single line with at least MIN_FIELDS fields gives one record; each
\* number of the record is what its own text stands for under its rule, 0
\* for N/A, a bracketed text or any other text the rule rejects, and is the
\* number the well-formed line gives when only that text is put into it.
C16_FieldsParsedIndependently ==
  call.fn = "parse_nvidia_smi_output" =>
    \A c \in DOMAIN call.outs :
      (Len(call.args.output) = 1 /\ HasRecord(call.args.output[1])) =>
        LET line == call.args.output[1]
            recs == call.outs[c]
        IN /\ Len(recs) = 1
           /\ recs[1].index = ValueOf(IntTexts, Trim(line[1]))
           /\ \A i \in 4..6 : NumberAt(recs[1], i) = ValueOf(MibTexts, Trim(line[i]))
           /\ recs[1].utilization_percent = ValueOf(PercentTexts, Trim(line[7]))
           /\ recs[1].temperature_celsius = ValueOf(IntTexts, Trim(line[8]))
           /\ \A i \in 9..10 : NumberAt(recs[1], i) = ValueOf(WattsTexts, Trim(line[i]))
           /\ \A i \in NumericFields :
                NumberAt(recs[1], i) =
                  NumberAt(parse_nvidia_smi_output(<< [BaseLine EXCEPT ![i] = line[i]] >>)[1], i)

\* The utilization is [N/A] and the power limit has its unit: utilization 0,
\* limit 15, every other number as in the well-formed line.
C16_Witness ==
  /\ call.fn = "parse_nvidia_smi_output"
  /\ call.args.output =
       << [BaseLine EXCEPT ![7] = << "[", "N", "/", "A", "]" >>,
                           ![10] = << "1", "5", ".", "7", "5", " ", "W" >>] >>
  /\ Len(call.outs) >= 1
  /\ call.outs[1][1].utilization_percent = 0
  /\ call.outs[1][1].power_limit_watts = 15
  /\ call.outs[1][1].temperature_celsius = 40
  /\ call.outs[1][1].power_draw_watts = 70

\* a label value in which every backslash starts \\, \" or \n and there is
\* no other double quote and no newline
RECURSIVE WellEscaped(_)
WellEscaped(s) ==
  IF s = << >> THEN TRUE
  ELSE IF Head(s) = "\\"
       THEN Len(s) >= 2 /\ s[2] \in {"\\", "\"", "n"} /\ WellEscaped(SubSeq(s, 3, Len(s)))
       ELSE Head(s) \notin {"\"", "\n"} /\ WellEscaped(Tail(s))

\* C17: every label value of every sample line of the output is escaped.
C17_EveryLabelEscaped ==
  call.fn = "to_prometheus" =>
    \A c \in DOMAIN call.outs :
      \A l \in DOMAIN call.outs[c] :
        \A k \in DOMAIN call.outs[c][l].labels :
          WellEscaped(call.outs[c][l].labels[k].value)

\* the lines of one family
LinesOf(out, family) == LET Is(l) == l.family = family IN SelectSeq(out, Is)

\* the output's families and their flags
FlagOf ==
  [hw_node_info |-> "node_info", hw_node_uptime_seconds |-> "node_uptime",
   hw_cpu_cores |-> "cpu_cores", hw_cpu_threads |-> "cpu_threads",
   hw_cpu_usage_percent |-> "cpu_usage", hw_cpu_used_cores |-> "cpu_used_cores",
   hw_memory_total_bytes |-> "memory_total", hw_memory_used_bytes |-> "memory_used",
   hw_memory_available_bytes |-> "memory_available", hw_memory_usage_percent |-> "memory_usage",
   hw_gpu_count |-> "gpu_count", hw_gpu_used_count |-> "gpu_used_count",
   hw_gpu_type_count |-> "gpu_type_count",
   hw_gpu_memory_total_bytes |-> "gpu_memory_total", hw_gpu_memory_used_bytes |-> "gpu_memory_used",
   hw_gpu_memory_free_bytes |-> "gpu_memory_free",
   hw_gpu_utilization_percent |-> "gpu_utilization",
   hw_gpu_temperature_celsius |-> "gpu_temperature",
   hw_gpu_power_draw_watts |-> "gpu_power_draw", hw_gpu_power_limit_watts |-> "gpu_power_limit"]
Families == DOMAIN FlagOf
DeviceFamilies ==
  {"hw_gpu_memory_total_bytes", "hw_gpu_memory_used_bytes", "hw_gpu_memory_free_bytes",
   "hw_gpu_utilization_percent", "hw_gpu_temperature_celsius", "hw_gpu_power_draw_watts",
   "hw_gpu_power_limit_watts"}
GpuFamilies == DeviceFamilies \cup {"hw_gpu_count", "hw_gpu_used_count", "hw_gpu_type_count"}

\* C18: with N >= 1 devices, an enabled per-device family has a HELP line, a
\* TYPE line and then N samples, the i-th for the i-th device, and a disabled
\* one has no line; with the flag of one family turned over, the lines of
\* every other family are the same; with no devices no GPU family has a line.
C18_PerDeviceFamilies ==
  call.fn = "to_prometheus" =>
    \A c \in DOMAIN call.outs :
      LET m   == call.args.self
          e   == call.args.enabled
          out == call.outs[c]
          N   == Len(m.gpu_devices)
      IN /\ N >= 1 =>
              \A fam \in DeviceFamilies :
                LET ls == LinesOf(out, fam) IN
                  IF e[FlagOf[fam]]
                  THEN /\ Len(ls) = N + 2
                       /\ ls[1].kind = "HELP" /\ ls[2].kind = "TYPE"
                       /\ \A i \in 1..N :
                            /\ ls[i + 2].kind = "sample"
                            /\ ls[i + 2].labels[2] = Label("gpu_index", Dec(m.gpu_devices[i].index))
                            /\ ls[i + 2].labels[4] = Label("gpu_uuid", m.gpu_devices[i].uuid)
                  ELSE ls = << >>
         /\ \A fam \in Families :
              LET other == to_prometheus(m, call.args.order,
                                         [e EXCEPT ![FlagOf[fam]] = ~e[FlagOf[fam]]])
              IN /\ \A g \in Families \ {fam} : LinesOf(other, g) = LinesOf(out, g)
                 /\ (N >= 1 /\ fam \in GpuFamilies) => LinesOf(other, fam) # LinesOf(out, fam)
         /\ N = 0 => \A l \in DOMAIN out : out[l].family \notin GpuFamilies

\* Two devices, every family but the temperature enabled: the output has the
\* power draw's four lines and no line of the temperature.
C18_Witness ==
  /\ call.fn = "to_prometheus"
  /\ Len(call.args.self.gpu_devices) = 2
  /\ call.args.enabled = [f \in FlagNames |-> f # "gpu_temperature"]
  /\ Len(call.outs) >= 1
  /\ Len(LinesOf(call.outs[1], "hw_gpu_power_draw_watts")) = 4
  /\ LinesOf(call.outs[1], "hw_gpu_temperature_celsius") = << >>

InCollect(r) == pc[r] \notin {"idle", "sys_lock"}

\* the longest a cycle's two executor invocations can take: each ends at the
\* timeout, or at the first poll after it
TwoTimeouts == 2 * (Timeout + POLL_INTERVAL_MS)

====
